---- MODULE Spec2Model ----
(***************************************************************************)
(* Model of src/bitso_trading_bot.py: the order ledger (table `orders`),   *)
(* the in-process active-id lists, the exchange as seen through the API    *)
(* calls, and one trading cycle of BitsoTradingBot followed by the         *)
(* KeyboardInterrupt shutdown path of run().                               *)
(*                                                                         *)
(* Units.  Every price is an integer number of ticks, 1 tick = 0.0001 MXN, *)
(* so a value quantized to Decimal('0.01') is a multiple of 100 ticks.     *)
(* The traded quantity is counted in lots, 1 lot = Decimal('0.00001') BTC  *)
(* (TRADE_AMOUNT).  A fee fraction is an integer n standing for n/FeeDen.  *)
(* A BTC balance is counted in 1/FeeDen lots, an MXN balance in tick-lots, *)
(* which makes the two balance comparisons of the code integer             *)
(* comparisons.  Decimal works with 28 significant digits; with the        *)
(* denominators used here (at most 100 * FeeDen) every quotient the code   *)
(* compares or quantizes is at least 10^-7 away from the value it is       *)
(* compared with unless it is equal to it, so exact rational arithmetic    *)
(* gives the results of the Decimal operations.                            *)
(***************************************************************************)
EXTENDS Integers, Sequences, FiniteSets, TLC

VARIABLES
    pc,                 \* position of run(): sleep, reconcile, quote, place_sell, place_buy, shutdown, stopped, crashed
    ledger,             \* rows of table orders, in insertion order (row id = index)
    active_buy_orders,  \* self.active_buy_orders
    active_sell_orders, \* self.active_sell_orders
    exchange,           \* orders accepted by the exchange, oid = index
    active_orders,      \* local of check_active_orders / run: row ids returned by get_active_orders_from_db
    idx,                \* position of the for loop over active_orders
    cao,                \* locals ticker.bid and fee of check_active_orders, <<>> outside the loop
    quote,              \* locals of run_trading_cycle after the quote step, <<>> before it
    ev,                 \* what the last step did and what its remote and ledger calls returned
    calc                \* arguments and result of a pricing function applied on its own (PriceSpec, CalcSpec, MarkupSpec)

vars == <<pc, ledger, active_buy_orders, active_sell_orders, exchange,
          active_orders, idx, cao, quote, ev, calc>>

-----------------------------------------------------------------------------
(* Configuration, lines 41-46 *)

TARGET_PROFIT_PERCENTAGE == 2      \* Decimal('0.02'), in percent
MAX_SELL_PRICE_FACTOR == 110       \* Decimal('1.10'), in percent
TRADE_AMOUNT == 1                  \* Decimal('0.00001') BTC = 1 lot
FeeDen == 1000                     \* a fee fraction n stands for n / FeeDen
SPREAD_FEE == 10                   \* Decimal('0.01') = 10 / FeeDen

(* Bounds of the model *)
MaxOrders == 2                     \* orders the exchange accepts in one run
MaxCents == 12                     \* PriceSpec: buy prices 0.01 .. MaxCents / 100

(* What the exchange can answer.  <<>> stands for a call that raises. *)
Bids == {50, 10050}                \* ticker.bid: 0.0050 (below one cent) and 1.0050
Fees == {100, 10000}               \* fees.btc_mxn.fee_percent in 0.01 %: 1 % and 100 %
BtcBalances == {0, FeeDen + 100}   \* balances.btc.available: nothing, 1.1 lots
MxnBalances == {0, 20000}          \* balances.mxn.available
TickerResults == {<<>>} \cup {<<b>> : b \in Bids}
FeeResults == {<<>>} \cup {<<f>> : f \in Fees}
BalanceResults == {<<>>} \cup {<<[btc |-> b, mxn |-> m]>> : b \in BtcBalances, m \in MxnBalances}

None == <<>>
Some(x) == <<x>>

-----------------------------------------------------------------------------
(* Decimal helpers *)

Min(a, b) == IF a <= b THEN a ELSE b
Max(a, b) == IF a >= b THEN a ELSE b

\* ceiling of num / den for num >= 0, den > 0
CeilDiv(num, den) == (num + den - 1) \div den

\* x.quantize(Decimal('0.01'), rounding='ROUND_HALF_UP') for x >= 0 ticks
QuantizeHalfUp(x) == ((x + 50) \div 100) * 100

\* x.quantize(Decimal('0.01'), rounding='ROUND_DOWN') for x >= 0 ticks
QuantizeDown(x) == (x \div 100) * 100

\* (num/den).quantize(Decimal('0.01'), rounding='ROUND_UP') for num/den >= 0 ticks
QuantizeUp(num, den) == 100 * CeilDiv(num, 100 * den)

\* effective_btc = trade_amount - trade_amount * fee, times FeeDen
EffectiveBtc(fee) == TRADE_AMOUNT * FeeDen - TRADE_AMOUNT * fee

\* required_btc without the fee
RequiredBtcNoFee(fee) == TRADE_AMOUNT * FeeDen

\* required_btc = trade_amount + trade_amount * fee, times FeeDen
RequiredBtc(fee) == TRADE_AMOUNT * FeeDen + TRADE_AMOUNT * fee

\* required_mxn = price * trade_amount
RequiredMxn(price) == price * TRADE_AMOUNT

\* The division (price * trade_amount) / effective_btc raises
\* decimal.DivisionByZero when effective_btc is 0 (fee fraction 1).
DivisionRaises(fee) == EffectiveBtc(fee) = 0

\* the fee-relative formula without the max of line 152
FeeRelativeSellNoBreakeven(price, fee) ==
    LET eff == EffectiveBtc(fee)
        sell_n == price * (100 + TARGET_PROFIT_PERCENTAGE) * eff
        max_n == price * MAX_SELL_PRICE_FACTOR * eff
    IN  QuantizeUp(Min(sell_n, max_n), 100 * eff)

(* The fee-relative formula of calculate_prices, lines 139-159:
   sell = min(max(price * 1.02, breakeven), price * 1.10) rounded up to 0.01,
   breakeven = price * trade_amount / effective_btc.  The three quantities
   are held over the common denominator 100 * EffectiveBtc(fee). *)
FeeRelativeSell(price, fee) ==
    LET eff == EffectiveBtc(fee)
        breakeven_n == price * TRADE_AMOUNT * FeeDen * 100
        sell_n == price * (100 + TARGET_PROFIT_PERCENTAGE) * eff
        max_n == price * MAX_SELL_PRICE_FACTOR * eff
    IN  QuantizeUp(Min(Max(sell_n, breakeven_n), max_n), 100 * eff)

\* the target price of place_buy_order without the min of line 266
TargetPriceNoMax(price, fee) ==
    LET btc_fee == TRADE_AMOUNT * fee
        effective_btc == TRADE_AMOUNT * FeeDen - btc_fee
        breakeven_n == price * TRADE_AMOUNT * FeeDen * 100
        target_n == price * (100 + TARGET_PROFIT_PERCENTAGE) * effective_btc
    IN  QuantizeUp(Max(target_n, breakeven_n), 100 * effective_btc)

(* The target price of place_buy_order, lines 249-269, with the names of
   its locals; the three prices are numerators over 100 * effective_btc. *)
TargetPrice(price, fee) ==
    LET btc_fee == TRADE_AMOUNT * fee
        effective_btc == TRADE_AMOUNT * FeeDen - btc_fee
        breakeven_n == price * TRADE_AMOUNT * FeeDen * 100
        target_n == price * (100 + TARGET_PROFIT_PERCENTAGE) * effective_btc
        max_target_n == price * MAX_SELL_PRICE_FACTOR * effective_btc
        clamped_n == Min(IF target_n >= breakeven_n THEN target_n ELSE breakeven_n,
                         max_target_n)
    IN  QuantizeUp(clamped_n, 100 * effective_btc)

(* The sell price check_active_orders computes for a completed buy that has
   no target price, lines 438-458, with the names of its locals *)
FallbackSellPrice(buy_price, fee) ==
    LET btc_fee == TRADE_AMOUNT * fee
        effective_btc == TRADE_AMOUNT * FeeDen - btc_fee
        breakeven_n == buy_price * TRADE_AMOUNT * FeeDen * 100
        sell_n == buy_price * (100 + TARGET_PROFIT_PERCENTAGE) * effective_btc
        max_sell_n == buy_price * MAX_SELL_PRICE_FACTOR * effective_btc
        floored_n == IF sell_n >= breakeven_n THEN sell_n ELSE breakeven_n
        clamped_n == IF floored_n <= max_sell_n THEN floored_n ELSE max_sell_n
    IN  QuantizeUp(clamped_n, 100 * effective_btc)

\* sell_price < breakeven, both in ticks: x < price*amount*FeeDen / eff
BelowBreakeven(x, price, fee) ==
    x * EffectiveBtc(fee) < price * TRADE_AMOUNT * FeeDen

\* min_profitable_price.quantize(Decimal('0.01'), rounding='ROUND_UP'), line 469
BreakevenUp(price, fee) == QuantizeUp(price * TRADE_AMOUNT * FeeDen, EffectiveBtc(fee))

\* get_fees with no fee as its default value
get_fees_default_zero(r) == IF r = <<>> THEN 0 ELSE (r[1] * FeeDen) \div (100 * 100)

\* get_fees, lines 102-111: fee_percent / 100 as a fraction over FeeDen, for
\* a fee_percent r[1] counted in 0.01 %; SPREAD_FEE when the call raises
get_fees(r) == IF r = <<>> THEN SPREAD_FEE ELSE (r[1] * FeeDen) \div (100 * 100)

\* the fee_percent, in 0.01 %, of a fee fraction over FeeDen
FeePercent(fee) == (fee * 100 * 100) \div FeeDen

-----------------------------------------------------------------------------
(* calculate_prices, lines 124-175, for a ticker that is not None and a fee
   for which the division does not raise: <<buy_price, sell_price>> *)
calculate_prices(bid, fee) ==
    LET buy_price == QuantizeDown(bid)
    IN  <<buy_price, FeeRelativeSell(buy_price, fee)>>

-----------------------------------------------------------------------------
(* The state the operations work on.  An operation is a function from this
   record (and what its remote and ledger calls return) to the record after
   it, so that one operation can call another as the code does. *)
St == [ledger |-> ledger, buys |-> active_buy_orders,
       sells |-> active_sell_orders, exchange |-> exchange]

\* class Order, lines 54-68: is_active has default True
Order(order_id, side, price, amount, target_price, status) ==
    [order_id |-> order_id, side |-> side, price |-> price, amount |-> amount,
     target_price |-> target_price, status |-> status, is_active |-> TRUE]

\* query(Order).filter_by(order_id=order_id).first(): the row id, 0 for None
FirstRow(L, order_id) ==
    IF \E i \in DOMAIN L : L[i].order_id = order_id
    THEN CHOOSE i \in DOMAIN L :
            L[i].order_id = order_id /\ \A j \in 1..(i - 1) : L[j].order_id # order_id
    ELSE 0

\* float(x) stored in a Float column and read back with Decimal(str(x)): the
\* shortest repr of the double nearest to a decimal of at most 15 significant
\* digits is that decimal, and every price of the model has fewer digits.
FloatColumn(x) == x

\* save_order_to_db on a table without the unique constraint of line 59
save_order_to_db_not_unique(st, order_id, side, price, amount, target_price, commit_ok) ==
    IF commit_ok
    THEN [st EXCEPT !.ledger = Append(@,
            Order(order_id, side, FloatColumn(price), FloatColumn(amount),
                  IF target_price # None /\ target_price[1] # 0
                  THEN Some(FloatColumn(target_price[1])) ELSE None,
                  "active"))]
    ELSE st

(* save_order_to_db, lines 177-194.  commit_ok is whether the commit goes
   through; it also fails (IntegrityError) on an order_id already in the
   table, the column being unique (line 59).  A failure rolls back. *)
save_order_to_db(st, order_id, side, price, amount, target_price, commit_ok) ==
    IF commit_ok /\ FirstRow(st.ledger, order_id) = 0
    THEN [st EXCEPT !.ledger = Append(@,
            Order(order_id, side, FloatColumn(price), FloatColumn(amount),
                  IF target_price # None /\ target_price[1] # 0
                  THEN Some(FloatColumn(target_price[1])) ELSE None,
                  "active"))]
    ELSE st

\* update_order_status without lines 203-204
update_order_status_keeps_active(st, order_id, status, commit_ok) ==
    LET i == FirstRow(st.ledger, order_id)
    IN  IF i # 0 /\ commit_ok
        THEN [st EXCEPT !.ledger[i].status = status]
        ELSE st

\* update_order_status that also clears the row's target_price
update_order_status_clears_target(st, order_id, status, commit_ok) ==
    LET i == FirstRow(st.ledger, order_id)
    IN  IF i # 0 /\ commit_ok
        THEN [st EXCEPT !.ledger[i].status = status,
                        !.ledger[i].target_price = None,
                        !.ledger[i].is_active =
                            IF status # "active" THEN FALSE ELSE @]
        ELSE st

(* update_order_status, lines 196-209 *)
update_order_status(st, order_id, status, commit_ok) ==
    LET i == FirstRow(st.ledger, order_id)
    IN  IF i # 0 /\ commit_ok
        THEN [st EXCEPT !.ledger[i].status = status,
                        !.ledger[i].is_active =
                            IF status # "active" THEN FALSE ELSE @]
        ELSE st

\* the query without filter_by(is_active=True)
AllRows(L) == [i \in 1..Len(L) |-> i]

\* get_active_orders_from_db, lines 211-218: the ids of the rows with
\* is_active, [] when the query raises
ActiveRows(L) ==
    LET F[i \in 0..Len(L)] ==
            IF i = 0 THEN <<>>
            ELSE IF L[i].is_active THEN Append(F[i - 1], i) ELSE F[i - 1]
    IN  F[Len(L)]

\* the query with .first() in place of .all(): at most one row
get_first_active_order_from_db(L, query_ok) ==
    IF query_ok /\ ActiveRows(L) # <<>> THEN <<ActiveRows(L)[1]>> ELSE <<>>

get_active_orders_from_db(L, query_ok) == IF query_ok THEN ActiveRows(L) ELSE <<>>

\* count_active_orders_by_side, lines 220-227 (no caller in the source)
count_active_orders_by_side(L, side) ==
    Cardinality({i \in DOMAIN L : L[i].is_active /\ L[i].side = side})

\* if order_id in lst: lst.remove(order_id)
Remove(lst, order_id) ==
    IF \E i \in DOMAIN lst : lst[i] = order_id
    THEN LET k == CHOOSE i \in DOMAIN lst :
                    lst[i] = order_id /\ \A j \in 1..(i - 1) : lst[j] # order_id
         IN  SubSeq(lst, 1, k - 1) \o SubSeq(lst, k + 1, Len(lst))
    ELSE lst

\* lines 345-349, 361-365, 383-387
RemoveFromLists(st, order_id) ==
    [st EXCEPT !.buys = Remove(@, order_id), !.sells = Remove(@, order_id)]

-----------------------------------------------------------------------------
(* The exchange.  A remote order is open until the exchange fills or cancels
   it; the bot learns of it through lookup_order and cancel_order only, so
   the change is made when one of them reports it. *)

RemoteOrder(side, price) == [side |-> side, price |-> price, status |-> "open"]

\* What api.lookup_order([order_id]) can answer, with the remote status after
\* the call: the order's status, an empty list, the error 0312 for an order
\* that is no longer open, or another error.
LookupResults(X, order_id) ==
    LET r == X[order_id].status
        after == IF r = "open" THEN {"open", "complete", "cancelled"} ELSE {r}
    IN  {[answer |-> a, status |-> a] : a \in after}
        \cup {[answer |-> "0312", status |-> a] : a \in after \ {"open"}}
        \cup {[answer |-> a, status |-> r] : a \in {"none", "error"}}

\* check_order_status with the error 0312 recorded as 'cancelled'
check_order_status_0312_cancelled(st, order_id, look, commit_ok) ==
    LET st1 == [st EXCEPT !.exchange[order_id].status = look.status]
    IN  CASE look.answer \in {"complete", "cancelled"} ->
                [st |-> RemoveFromLists(
                            update_order_status(st1, order_id, look.answer, commit_ok),
                            order_id),
                 ret |-> Some(look.answer)]
          [] look.answer = "open" -> [st |-> st1, ret |-> Some("open")]
          [] look.answer = "0312" ->
                [st |-> RemoveFromLists(
                            update_order_status(st1, order_id, "cancelled", commit_ok),
                            order_id),
                 ret |-> None]
          [] OTHER -> [st |-> st1, ret |-> None]

\* check_order_status with the list removal done for every exception
check_order_status_error_removes(st, order_id, look, commit_ok) ==
    LET st1 == [st EXCEPT !.exchange[order_id].status = look.status]
    IN  CASE look.answer \in {"complete", "cancelled"} ->
                [st |-> RemoveFromLists(
                            update_order_status(st1, order_id, look.answer, commit_ok),
                            order_id),
                 ret |-> Some(look.answer)]
          [] look.answer = "open" -> [st |-> st1, ret |-> Some("open")]
          [] look.answer = "0312" ->
                [st |-> RemoveFromLists(
                            update_order_status(st1, order_id, "completed", commit_ok),
                            order_id),
                 ret |-> None]
          [] look.answer = "error" -> [st |-> RemoveFromLists(st1, order_id), ret |-> None]
          [] OTHER -> [st |-> st1, ret |-> None]

(* check_order_status, lines 330-368, for a non-empty order_id: the state
   after it and what it returns (None, or the remote order's status). *)
check_order_status(st, order_id, look, commit_ok) ==
    LET st1 == [st EXCEPT !.exchange[order_id].status = look.status]
    IN  CASE look.answer \in {"complete", "cancelled"} ->
                [st |-> RemoveFromLists(
                            update_order_status(st1, order_id, look.answer, commit_ok),
                            order_id),
                 ret |-> Some(look.answer)]
          [] look.answer = "open" -> [st |-> st1, ret |-> Some("open")]
          [] look.answer = "0312" ->
                [st |-> RemoveFromLists(
                            update_order_status(st1, order_id, "completed", commit_ok),
                            order_id),
                 ret |-> None]
          [] OTHER -> [st |-> st1, ret |-> None]

(* place_sell_order, lines 294-328.  env is what its calls return: bal
   (api.balances), fee (api.fees), place (whether api.place_order accepts) and
   commit (the ledger commit).  The result holds the state after it, the oid
   returned (0 for None), and whether the order reached the exchange. *)
place_sell_order(st, price, buy_price, env) ==
    LET oid == Len(st.exchange) + 1
        refused == [st |-> st, ret |-> 0, submitted |-> FALSE]
    IN  IF env.bal = <<>> THEN refused
        ELSE IF env.bal[1].btc < RequiredBtc(get_fees(env.fee)) THEN refused
        ELSE IF ~env.place THEN refused
        ELSE LET st1 == [st EXCEPT !.exchange = Append(@, RemoteOrder("sell", price))]
                 st2 == save_order_to_db(st1, oid, "sell", price, TRADE_AMOUNT,
                                         buy_price, env.commit)
             IN  [st |-> [st2 EXCEPT !.sells = Append(@, oid)],
                  ret |-> oid, submitted |-> TRUE]

(* place_buy_order, lines 229-292.  The division of line 256 raises after
   api.place_order has returned when the fee fraction is 1; the except clause
   of line 290 then returns None with the order on the exchange. *)
place_buy_order(st, price, env) ==
    LET oid == Len(st.exchange) + 1
        fee == get_fees(env.fee)
        refused == [st |-> st, ret |-> 0, submitted |-> FALSE]
    IN  IF env.bal = <<>> THEN refused
        ELSE IF env.bal[1].mxn < RequiredMxn(price) THEN refused
        ELSE IF ~env.place THEN refused
        ELSE LET st1 == [st EXCEPT !.exchange = Append(@, RemoteOrder("buy", price))]
             IN  IF DivisionRaises(fee)
                 THEN [st |-> st1, ret |-> 0, submitted |-> TRUE]
                 ELSE LET st2 == save_order_to_db(st1, oid, "buy", price, TRADE_AMOUNT,
                                     Some(TargetPrice(price, fee)), env.commit)
                      IN  [st |-> [st2 EXCEPT !.buys = Append(@, oid)],
                           ret |-> oid, submitted |-> TRUE]

\* What the calls of one place_*_order can return; the exchange accepts at
\* most MaxOrders orders in a run.
\* A call that is not reached is listed once, with the value TRUE or <<>>.
PlaceEnvs(st) ==
    {env \in [bal : BalanceResults, fee : FeeResults,
              place : IF Len(st.exchange) < MaxOrders THEN BOOLEAN ELSE {FALSE},
              commit : BOOLEAN] :
        /\ env.bal = <<>> => env.fee = <<>> /\ ~env.place
        /\ ~env.place => env.commit}

\* cancel_order without the test of line 380
cancel_order_marks_always(st, order_id, result, commit_ok) ==
    RemoveFromLists(
        update_order_status(
            [st EXCEPT !.exchange[order_id].status =
                            IF result = "true" THEN "cancelled" ELSE @],
            order_id, "cancelled", commit_ok),
        order_id)

(* cancel_order, lines 370-392, for a non-empty order_id.  result is what
   api.cancel_order returns: "true", another string, or "raise". *)
cancel_order(st, order_id, result, commit_ok) ==
    IF result = "true"
    THEN RemoveFromLists(
            update_order_status(
                [st EXCEPT !.exchange[order_id].status = "cancelled"],
                order_id, "cancelled", commit_ok),
            order_id)
    ELSE st

\* the bid has fallen below 0.98 of the order's price, line 492
PriceDropped(order, bid) == bid * 100 < FloatColumn(order.price) * 98

\* the branch of lines 487-494 with a cancel where line 493 logs
check_sell_drift_cancels(st, order, bid) ==
    IF bid >= FloatColumn(order.price) THEN st
    ELSE IF PriceDropped(order, bid)
    THEN cancel_order(st, order.order_id, "true", TRUE)
    ELSE st

(* The branch of check_active_orders for an open sell order, lines 487-494:
   each of its cases writes a log line, or nothing; line 494 is a comment. *)
check_sell_drift(st, order, bid) ==
    IF bid >= FloatColumn(order.price) THEN st
    ELSE IF PriceDropped(order, bid) THEN st
    ELSE st

\* The exchange cancels an order that is still open, and only that.
CancelResults(X, order_id) ==
    IF X[order_id].status = "open" THEN {"true", "false", "raise"} ELSE {"false", "raise"}

-----------------------------------------------------------------------------
(* The sell price of the completed-buy branch of check_active_orders, lines
   425-470, for the row's price and target_price and the loop's fee, when the
   division of line 465 does not raise.  A price stored in the ledger is a
   multiple of 0.01, so price * 1.10 is a whole number of ticks. *)
CompletedBuySellPrice(price, target_price, fee) ==
    LET sell_price ==
            IF target_price # None /\ target_price[1] # 0
            THEN Min(target_price[1], (price * MAX_SELL_PRICE_FACTOR) \div 100)
            ELSE FallbackSellPrice(price, fee)
    IN  IF BelowBreakeven(sell_price, price, fee)
        THEN BreakevenUp(price, fee)
        ELSE sell_price

\* The step taken, for the properties: op names the step, row and order_id the
\* order it handled (0 for none), answer what the remote call returned,
\* commit whether the ledger write went through, bal and fee the balance and
\* the fee a place_*_order read (None when it read none).
Ev(op, row, order_id, answer, commit, bal, fee) ==
    [op |-> op, row |-> row, order_id |-> order_id, answer |-> answer,
     commit |-> commit, bal |-> bal, fee |-> fee]

\* the balance and the fee read by a place_*_order, for ev
BalRead(env, asset) ==
    IF env.bal = <<>> THEN None
    ELSE Some(IF asset = "btc" THEN env.bal[1].btc ELSE env.bal[1].mxn)
FeeRead(env) == IF env.bal = <<>> THEN None ELSE Some(get_fees(env.fee))

SetSt(st) ==
    /\ ledger' = st.ledger
    /\ active_buy_orders' = st.buys
    /\ active_sell_orders' = st.sells
    /\ exchange' = st.exchange

Init ==
    /\ pc = "sleep"
    /\ ledger = <<>>
    /\ active_buy_orders = <<>>
    /\ active_sell_orders = <<>>
    /\ exchange = <<>>
    /\ active_orders = <<>>
    /\ idx = 0
    /\ cao = None
    /\ quote = None
    /\ ev = Ev("init", 0, 0, "none", TRUE, None, None)
    /\ calc = None

(* run_trading_cycle calls check_active_orders, lines 394-411: the active
   rows, then the ticker and the fee; the loop is entered only with rows and
   a ticker. *)
CheckActiveOrders ==
    /\ pc = "sleep"
    /\ \E query_ok \in BOOLEAN, t \in TickerResults, f \in FeeResults :
        LET rows == get_active_orders_from_db(ledger, query_ok)
        IN  IF rows = <<>> \/ t = <<>>
            THEN /\ pc' = "quote"
                 /\ UNCHANGED <<active_orders, idx, cao>>
                 /\ ev' = Ev("check_active_orders", 0, 0,
                             IF rows = <<>> THEN "no_orders" ELSE "no_ticker",
                             TRUE, None, None)
            ELSE /\ pc' = "reconcile"
                 /\ active_orders' = rows
                 /\ idx' = 1
                 /\ cao' = Some([bid |-> t[1], fee |-> get_fees(f)])
                 /\ ev' = Ev("check_active_orders", 0, 0, "loop", TRUE, None, None)
    /\ UNCHANGED <<ledger, active_buy_orders, active_sell_orders, exchange, quote, calc>>

\* The loop of check_active_orders moves to the next row, or returns to
\* run_trading_cycle after the last; an exception that escapes ends run().
LoopNext(raised) ==
    IF raised
    THEN pc' = "crashed" /\ UNCHANGED <<active_orders, idx, cao>>
    ELSE IF idx = Len(active_orders)
    THEN pc' = "quote" /\ active_orders' = <<>> /\ idx' = 0 /\ cao' = None
    ELSE pc' = pc /\ idx' = idx + 1 /\ UNCHANGED <<active_orders, cao>>

\* line 418: the rest of the loop body is skipped unless the order is open
SkipsRest(ret) == ret = None \/ ret[1] # "open"

(* One iteration of the loop of check_active_orders, lines 413-494 *)
ReconcileOrder ==
    /\ pc = "reconcile"
    /\ LET row == active_orders[idx]
           order == ledger[row]
       IN  \E look \in LookupResults(exchange, order.order_id) :
           \E commit_ok \in IF look.answer \in {"complete", "cancelled", "0312"}
                            THEN BOOLEAN ELSE {TRUE} :
            LET r == check_order_status(St, order.order_id, look, commit_ok)
            IN  IF SkipsRest(r.ret)
                THEN /\ SetSt(r.st)
                     /\ LoopNext(FALSE)
                     /\ ev' = Ev("reconcile", row, order.order_id, look.answer,
                                 commit_ok, None, None)
                ELSE IF order.side = "buy" /\ r.ret[1] = "complete"
                THEN IF DivisionRaises(cao[1].fee)
                     THEN /\ SetSt(r.st)
                          /\ LoopNext(TRUE)
                          /\ ev' = Ev("reconcile", row, order.order_id, look.answer,
                                      commit_ok, None, None)
                     ELSE \E env \in PlaceEnvs(r.st), commit2 \in BOOLEAN :
                            LET buy_price == FloatColumn(order.price)
                                sell_price == CompletedBuySellPrice(buy_price,
                                                order.target_price, cao[1].fee)
                                p == place_sell_order(r.st, sell_price, Some(buy_price), env)
                            IN  /\ SetSt(update_order_status(p.st, order.order_id,
                                                             "completed", commit2))
                                /\ LoopNext(FALSE)
                                /\ ev' = Ev("spawn_sell", row, order.order_id,
                                            look.answer, commit_ok /\ commit2,
                                            BalRead(env, "btc"), FeeRead(env))
                ELSE /\ SetSt(IF order.side = "sell"
                              THEN check_sell_drift(r.st, order, cao[1].bid)
                              ELSE r.st)
                     /\ LoopNext(FALSE)
                     /\ ev' = Ev("reconcile", row, order.order_id, look.answer,
                                 commit_ok, None, None)
    /\ UNCHANGED <<quote, calc>>

\* calculate_prices raises: the division of line 146 by effective_btc = 0, or
\* sell_price / buy_price of line 163 with buy_price = 0
CalculatePricesRaises(bid, fee) == DivisionRaises(fee) \/ QuantizeDown(bid) = 0

\* the fee api.fees returned, for ev: None when the call raised and get_fees
\* fell back on SPREAD_FEE
FeeObtained(f) == IF f = <<>> THEN None ELSE Some(get_fees(f))

(* The quote step of run_trading_cycle, lines 503-519.  ev.fee is the fee
   obtained from the exchange, None when there is none. *)
Quote ==
    /\ pc = "quote"
    /\ \E t \in TickerResults, f \in FeeResults, b \in BalanceResults :
        LET fee == get_fees(f)
        IN  IF t = <<>>
            THEN /\ pc' = "sleep" /\ quote' = None
                 /\ ev' = Ev("quote", 0, 0, "no_ticker", TRUE, None, None)
            ELSE IF CalculatePricesRaises(t[1], fee)
            THEN /\ pc' = "crashed" /\ quote' = None
                 /\ ev' = Ev("quote", 0, 0, "raised", TRUE, None, FeeObtained(f))
            ELSE LET prices == calculate_prices(t[1], fee)
                 IN  IF prices[1] = 0 \/ prices[2] = 0
                     THEN /\ pc' = "sleep" /\ quote' = None
                          /\ ev' = Ev("quote", 0, 0, "no_price", TRUE, None, FeeObtained(f))
                     ELSE IF b = <<>>
                     THEN /\ pc' = "sleep" /\ quote' = None
                          /\ ev' = Ev("quote", 0, 0, "no_balance", TRUE, None, FeeObtained(f))
                     ELSE /\ pc' = "place_sell"
                          /\ quote' = Some([buy_price |-> prices[1],
                                            sell_price |-> prices[2],
                                            fee |-> fee, balances |-> b[1]])
                          /\ ev' = Ev("quote", 0, 0, "quoted", TRUE, None, FeeObtained(f))
    /\ UNCHANGED <<ledger, active_buy_orders, active_sell_orders, exchange,
                   active_orders, idx, cao, calc>>

\* what a place_*_order did, for ev
PlaceAnswer(p) == IF p.submitted THEN "submitted" ELSE "refused"

(* The sell side of run_trading_cycle, lines 523-530 *)
PlaceSell ==
    /\ pc = "place_sell"
    /\ IF quote[1].balances.btc >= RequiredBtc(quote[1].fee)
       THEN \E env \in PlaceEnvs(St) :
                LET p == place_sell_order(St, quote[1].sell_price, None, env)
                IN  /\ SetSt(p.st)
                    /\ ev' = Ev("place_sell", 0, p.ret, PlaceAnswer(p), env.commit,
                                BalRead(env, "btc"), FeeRead(env))
       ELSE /\ UNCHANGED <<ledger, active_buy_orders, active_sell_orders, exchange>>
            /\ ev' = Ev("place_sell", 0, 0, "skipped", TRUE, None, None)
    /\ pc' = "place_buy"
    /\ UNCHANGED <<active_orders, idx, cao, quote, calc>>

\* run_trading_cycle with the call of check_active_orders (line 501) moved
\* after the buy side: the loop over the active rows starts once the buy is
\* placed, with the bid and the fee of the quote
PlaceBuyThenCheckActiveOrders ==
    /\ pc = "place_buy"
    /\ IF quote[1].balances.mxn >= RequiredMxn(quote[1].buy_price)
       THEN \E env \in PlaceEnvs(St) :
                LET p == place_buy_order(St, quote[1].buy_price, env)
                IN  /\ SetSt(p.st)
                    /\ ev' = Ev("place_buy", 0, p.ret, PlaceAnswer(p), env.commit,
                                BalRead(env, "mxn"), FeeRead(env))
       ELSE /\ UNCHANGED <<ledger, active_buy_orders, active_sell_orders, exchange>>
            /\ ev' = Ev("place_buy", 0, 0, "skipped", TRUE, None, None)
    /\ IF ActiveRows(ledger') = <<>>
       THEN pc' = "sleep" /\ UNCHANGED <<active_orders, idx, cao>>
       ELSE /\ pc' = "reconcile"
            /\ active_orders' = ActiveRows(ledger')
            /\ idx' = 1
            /\ cao' = Some([bid |-> quote[1].buy_price, fee |-> quote[1].fee])
    /\ quote' = None
    /\ UNCHANGED calc

(* The buy side of run_trading_cycle, lines 532-537; the cycle ends and run()
   sleeps *)
PlaceBuy ==
    /\ pc = "place_buy"
    /\ IF quote[1].balances.mxn >= RequiredMxn(quote[1].buy_price)
       THEN \E env \in PlaceEnvs(St) :
                LET p == place_buy_order(St, quote[1].buy_price, env)
                IN  /\ SetSt(p.st)
                    /\ ev' = Ev("place_buy", 0, p.ret, PlaceAnswer(p), env.commit,
                                BalRead(env, "mxn"), FeeRead(env))
       ELSE /\ UNCHANGED <<ledger, active_buy_orders, active_sell_orders, exchange>>
            /\ ev' = Ev("place_buy", 0, 0, "skipped", TRUE, None, None)
    /\ pc' = "sleep"
    /\ quote' = None
    /\ UNCHANGED <<active_orders, idx, cao, calc>>

\* the positions of run() inside the try block of lines 546-550
CyclePcs == {"sleep", "reconcile", "quote", "place_sell", "place_buy"}

(* KeyboardInterrupt in the try block of run(), between two steps of the
   cycle or during the sleep, lines 551-555: it is not an Exception, so no
   handler of the cycle catches it; the locals of the cycle are gone.
   ev.answer records whether the query of line 555 went through. *)
Interrupt ==
    /\ pc \in CyclePcs
    /\ \E query_ok \in BOOLEAN :
        /\ active_orders' = get_active_orders_from_db(ledger, query_ok)
        /\ ev' = Ev("interrupt", 0, 0, IF query_ok THEN "queried" ELSE "query_failed",
                    query_ok, None, None)
    /\ idx' = 1
    /\ pc' = "shutdown"
    /\ cao' = None
    /\ quote' = None
    /\ UNCHANGED <<ledger, active_buy_orders, active_sell_orders, exchange, calc>>

(* One iteration of the shutdown loop, lines 556-558 *)
CancelOrder ==
    /\ pc = "shutdown"
    /\ idx <= Len(active_orders)
    /\ LET row == active_orders[idx]
           order == ledger[row]
       IN  IF order.is_active
           THEN \E result \in CancelResults(exchange, order.order_id) :
                \E commit_ok \in IF result = "true" THEN BOOLEAN ELSE {TRUE} :
                    /\ SetSt(cancel_order(St, order.order_id, result, commit_ok))
                    /\ ev' = Ev("cancel", row, order.order_id, result, commit_ok, None, None)
           ELSE /\ UNCHANGED <<ledger, active_buy_orders, active_sell_orders, exchange>>
                /\ ev' = Ev("cancel", row, order.order_id, "skipped", TRUE, None, None)
    /\ idx' = idx + 1
    /\ UNCHANGED <<pc, active_orders, cao, quote, calc>>

(* After the loop: final balance, session closed, lines 560-564 *)
Shutdown ==
    /\ pc = "shutdown"
    /\ idx > Len(active_orders)
    /\ pc' = "stopped"
    /\ active_orders' = <<>>
    /\ idx' = 0
    /\ ev' = Ev("shutdown", 0, 0, "none", TRUE, None, None)
    /\ UNCHANGED <<ledger, active_buy_orders, active_sell_orders, exchange, cao, quote, calc>>

-----------------------------------------------------------------------------
(* PriceSpec: the pricing functions applied on their own.  The initial states
   hold the arguments: a buy price of whole cents, the fee fraction at the
   time the buy was placed and the fee fraction at the time it completed. *)

PricePoints == {100 * k : k \in 1..MaxCents} \cup {10100}
PriceFees == {0, 5, 10, 50, 100, 200, 500}

InitPrice ==
    /\ pc = "price"
    /\ ledger = <<>>
    /\ active_buy_orders = <<>>
    /\ active_sell_orders = <<>>
    /\ exchange = <<>>
    /\ active_orders = <<>>
    /\ idx = 0
    /\ cao = None
    /\ quote = None
    /\ ev = Ev("init", 0, 0, "none", TRUE, None, None)
    /\ calc \in {Some([fn |-> "args", price |-> p, fee0 |-> f0, fee |-> f,
                       target |-> None, sell |-> 0]) :
                    p \in PricePoints, f0 \in PriceFees, f \in PriceFees}

\* the row place_buy_order saves for a buy at `price` when the fee is fee0
\* (balance sufficient, order accepted, commit through)
SavedBuy(price, fee0) ==
    place_buy_order([ledger |-> <<>>, buys |-> <<>>, sells |-> <<>>, exchange |-> <<>>],
                    price,
                    [bal |-> Some([btc |-> 0, mxn |-> RequiredMxn(price)]),
                     fee |-> Some(FeePercent(fee0)), place |-> TRUE,
                     commit |-> TRUE]).st.ledger[1]

(* The completed-buy branch, lines 425-470, on the row saved by
   place_buy_order, with the fee of the later cycle *)
ApplyCompletedBuy ==
    /\ pc = "price"
    /\ calc[1].fn = "args"
    /\ LET order == SavedBuy(calc[1].price, calc[1].fee0)
       IN  calc' = Some([calc[1] EXCEPT
                !.fn = "completed_buy",
                !.target = order.target_price,
                !.sell = CompletedBuySellPrice(FloatColumn(order.price),
                                               order.target_price, calc[1].fee)])
    /\ UNCHANGED <<pc, ledger, active_buy_orders, active_sell_orders, exchange,
                   active_orders, idx, cao, quote, ev>>

NextPrice == ApplyCompletedBuy

PriceSpec == InitPrice /\ [][NextPrice]_vars

-----------------------------------------------------------------------------
(* LedgerSpec: save_order_to_db and update_order_status called on their own,
   with any order id, also one the table already holds. *)

LedgerIds == 1..MaxOrders
\* the two kinds of order the bot saves: a buy with its target price (line
\* 284) and a sell placed from a quote (line 320, buy_price None)
LedgerOrders == {[side |-> "buy", price |-> 10000, target_price |-> Some(10200)],
                 [side |-> "sell", price |-> 10200, target_price |-> None]}

InitLedger ==
    /\ pc = "ledger"
    /\ ledger = <<>>
    /\ active_buy_orders = <<>>
    /\ active_sell_orders = <<>>
    /\ exchange = <<>>
    /\ active_orders = <<>>
    /\ idx = 0
    /\ cao = None
    /\ quote = None
    /\ ev = Ev("init", 0, 0, "none", TRUE, None, None)
    /\ calc = None

\* ev.bal holds the price of the order given to save_order_to_db
LedgerSave ==
    /\ pc = "ledger"
    /\ Len(ledger) <= MaxOrders
    /\ \E order_id \in LedgerIds, o \in LedgerOrders, commit_ok \in BOOLEAN :
        /\ ledger' = save_order_to_db(St, order_id, o.side, o.price, TRADE_AMOUNT,
                                      o.target_price, commit_ok).ledger
        /\ ev' = Ev("save", 0, order_id, o.side, commit_ok, Some(o.price), None)
    /\ UNCHANGED <<pc, active_buy_orders, active_sell_orders, exchange,
                   active_orders, idx, cao, quote, calc>>

LedgerUpdate ==
    /\ pc = "ledger"
    /\ \E order_id \in LedgerIds, status \in {"complete", "completed", "cancelled"},
          commit_ok \in BOOLEAN :
        /\ ledger' = update_order_status(St, order_id, status, commit_ok).ledger
        /\ ev' = Ev("update", 0, order_id, status, commit_ok, None, None)
    /\ UNCHANGED <<pc, active_buy_orders, active_sell_orders, exchange,
                   active_orders, idx, cao, quote, calc>>

NextLedger == LedgerSave \/ LedgerUpdate

LedgerSpec == InitLedger /\ [][NextLedger]_vars

-----------------------------------------------------------------------------
(* CalcSpec: calculate_prices applied on its own to a ticker and a fee.  The
   initial states hold the arguments: a bid in steps of a quarter of a cent,
   from 0 to just below (MaxCents + 1) / 100, and 1.0025, 1.0050; a fee
   fraction from 0 to 1, with 0.090 and 0.091 on the two sides of the fee at
   which the breakeven equals the buy price times 1.10. *)

BidPoints == {25 * k : k \in 0..(4 * MaxCents + 3)} \cup {10025, 10050}
CalcFees == {0, 5, 10, 50, 90, 91, 100, 500, 999, FeeDen}

InitCalc ==
    /\ pc = "calc"
    /\ ledger = <<>>
    /\ active_buy_orders = <<>>
    /\ active_sell_orders = <<>>
    /\ exchange = <<>>
    /\ active_orders = <<>>
    /\ idx = 0
    /\ cao = None
    /\ quote = None
    /\ ev = Ev("init", 0, 0, "none", TRUE, None, None)
    /\ calc \in {Some([fn |-> "args", bid |-> b, fee |-> f, buy |-> 0, sell |-> 0]) :
                    b \in BidPoints, f \in CalcFees}

(* calculate_prices(ticker, fee), lines 124-175, as run_trading_cycle calls it
   at line 512: the pair it returns, or the exception *)
ApplyCalculatePrices ==
    /\ pc = "calc"
    /\ calc[1].fn = "args"
    /\ IF CalculatePricesRaises(calc[1].bid, calc[1].fee)
       THEN calc' = Some([calc[1] EXCEPT !.fn = "raised"])
       ELSE LET prices == calculate_prices(calc[1].bid, calc[1].fee)
            IN  calc' = Some([calc[1] EXCEPT !.fn = "calculate_prices",
                                             !.buy = prices[1],
                                             !.sell = prices[2]])
    /\ UNCHANGED <<pc, ledger, active_buy_orders, active_sell_orders, exchange,
                   active_orders, idx, cao, quote, ev>>

NextCalc == ApplyCalculatePrices

CalcSpec == InitCalc /\ [][NextCalc]_vars

-----------------------------------------------------------------------------
(* TargetSpec: the quote step of one cycle followed by its place_buy_order,
   on an empty ledger with enough MXN, the order accepted and the commit
   through.  The initial states hold the bid and what api.fees returns to
   run_trading_cycle (line 509) and to place_buy_order (line 241): a
   fee_percent in 0.01 %, or <<>> for a call that raises. *)

TargetFeeResults == {<<>>} \cup {<<f>> : f \in {0, 50, 100, 500, 1000, 5000, 10000}}

InitTarget ==
    /\ pc = "target"
    /\ ledger = <<>>
    /\ active_buy_orders = <<>>
    /\ active_sell_orders = <<>>
    /\ exchange = <<>>
    /\ active_orders = <<>>
    /\ idx = 0
    /\ cao = None
    /\ quote = None
    /\ ev = Ev("init", 0, 0, "none", TRUE, None, None)
    /\ calc \in {Some([fn |-> "args", bid |-> b, fees_quote |-> f1, fees_buy |-> f2,
                       buy |-> 0, sell |-> 0, fee_buy |-> 0, target |-> None,
                       fallback |-> 0]) :
                    b \in BidPoints, f1 \in TargetFeeResults, f2 \in TargetFeeResults}

(* Lines 509-512 and 535 of run_trading_cycle with place_buy_order: the
   quoted pair, the target price of the row saved (None when no row is
   saved), the fee place_buy_order read, and what lines 438-458 give for
   the row's price under that fee *)
QuoteAndPlaceBuy ==
    /\ pc = "target"
    /\ calc[1].fn = "args"
    /\ LET fee == get_fees(calc[1].fees_quote)
       IN  IF CalculatePricesRaises(calc[1].bid, fee)
           THEN calc' = Some([calc[1] EXCEPT !.fn = "raised"])
           ELSE LET prices == calculate_prices(calc[1].bid, fee)
                    p == place_buy_order(
                            [ledger |-> <<>>, buys |-> <<>>, sells |-> <<>>,
                             exchange |-> <<>>],
                            prices[1],
                            [bal |-> Some([btc |-> 0, mxn |-> RequiredMxn(prices[1])]),
                             fee |-> calc[1].fees_buy, place |-> TRUE, commit |-> TRUE])
                    fee_buy == get_fees(calc[1].fees_buy)
                IN  calc' = Some([calc[1] EXCEPT
                        !.fn = "quote_and_buy",
                        !.buy = prices[1],
                        !.sell = prices[2],
                        !.fee_buy = fee_buy,
                        !.target = IF p.st.ledger = <<>> THEN None
                                   ELSE p.st.ledger[1].target_price,
                        !.fallback = IF DivisionRaises(fee_buy) THEN 0
                                     ELSE FallbackSellPrice(
                                            FloatColumn(prices[1]), fee_buy)])
    /\ UNCHANGED <<pc, ledger, active_buy_orders, active_sell_orders, exchange,
                   active_orders, idx, cao, quote, ev>>

NextTarget == QuoteAndPlaceBuy

TargetSpec == InitTarget /\ [][NextTarget]_vars

-----------------------------------------------------------------------------
(* MarkupSpec: the Pricing Engine with its two strategies.  The fixed-markup
   strategy is in none of the source files at hand (calculate_prices has the
   fee-relative one only); it is taken from the specification, section 4.1:
   buyPrice = ask * (1 - undercut), rounded down to 2 decimals as every buy
   price is, and sellPrice = buyPrice + fixedMarginAbsolute.  The undercut
   is a fraction n / FeeDen, the margin a number of ticks. *)

fixed_markup_no_undercut(ask, undercut, fixedMargin) ==
    <<QuantizeDown(ask), QuantizeDown(ask) + fixedMargin>>

fixed_markup_prices(ask, undercut, fixedMargin) ==
    LET buy_price == 100 * ((ask * (FeeDen - undercut)) \div (100 * FeeDen))
    IN  <<buy_price, buy_price + fixedMargin>>

\* the contract price(ticker, feeFraction, tradeAmount, strategyConfig) of
\* section 4.1, for the trade amount of the configuration
PricingEngine(ticker, fee, cfg) ==
    IF cfg.strategy = "fixed_markup"
    THEN fixed_markup_prices(ticker.ask, cfg.undercut, cfg.fixedMargin)
    ELSE calculate_prices(ticker.bid, fee)

\* asks from 19.00 in steps of a cent, 19.05 among them, the bid being 0.05
\* below, for the fixed-markup strategy; the bids of CalcSpec from 0.01 on
\* for the fee-relative one
MarkupAsks == {190000 + 100 * k : k \in 0..MaxCents}
MarkupSpread == 500
MarkupTickers(cfg) ==
    IF cfg.strategy = "fixed_markup"
    THEN {[bid |-> a - MarkupSpread, ask |-> a] : a \in MarkupAsks}
    ELSE {[bid |-> b, ask |-> b + MarkupSpread] : b \in {x \in BidPoints : x >= 100}}
MarkupUndercuts == {0, 1, 2, 5}
MarkupMargins == {100, 500, 1000}
MarkupConfigs ==
    {[strategy |-> "fixed_markup", undercut |-> u, fixedMargin |-> m] :
        u \in MarkupUndercuts, m \in MarkupMargins}
    \cup {[strategy |-> "fee_relative", undercut |-> 0, fixedMargin |-> 0]}

InitMarkup ==
    /\ pc = "markup"
    /\ ledger = <<>>
    /\ active_buy_orders = <<>>
    /\ active_sell_orders = <<>>
    /\ exchange = <<>>
    /\ active_orders = <<>>
    /\ idx = 0
    /\ cao = None
    /\ quote = None
    /\ ev = Ev("init", 0, 0, "none", TRUE, None, None)
    /\ \E c \in MarkupConfigs :
        calc \in {Some([fn |-> "args", ticker |-> t, fee |-> SPREAD_FEE,
                         cfg |-> c, buy |-> 0, sell |-> 0]) :
                    t \in MarkupTickers(c)}

ApplyPrice ==
    /\ pc = "markup"
    /\ calc[1].fn = "args"
    /\ LET prices == PricingEngine(calc[1].ticker, calc[1].fee, calc[1].cfg)
       IN  calc' = Some([calc[1] EXCEPT !.fn = "price",
                                        !.buy = prices[1],
                                        !.sell = prices[2]])
    /\ UNCHANGED <<pc, ledger, active_buy_orders, active_sell_orders, exchange,
                   active_orders, idx, cao, quote, ev>>

NextMarkup == ApplyPrice

MarkupSpec == InitMarkup /\ [][NextMarkup]_vars

-----------------------------------------------------------------------------
Next ==
    \/ CheckActiveOrders
    \/ ReconcileOrder
    \/ Quote
    \/ PlaceSell
    \/ PlaceBuy
    \/ Interrupt
    \/ CancelOrder
    \/ Shutdown

Spec == Init /\ [][Next]_vars

-----------------------------------------------------------------------------
(* Properties *)

Rows == DOMAIN ledger
Sides == {"buy", "sell"}
InList(lst, order_id) == \E i \in DOMAIN lst : lst[i] = order_id

\* the last step was an iteration of the loop of check_active_orders
Reconciled == ev.op \in {"reconcile", "spawn_sell"}

(* C1: a locally active buy order that the remote lookup reports 'complete'
   has place_sell_order called for it in that iteration of
   check_active_orders. *)
C1_CompleteBuySpawnsSell ==
    (Reconciled /\ ev.answer = "complete" /\ ledger[ev.row].side = "buy")
        => ev.op = "spawn_sell"

(* C3: every ledger order's status is one of active, completed, cancelled;
   an order the remote lookup reports 'complete' becomes 'completed'. *)
C3_StatusEnum ==
    \A i \in Rows : ledger[i].status \in {"active", "completed", "cancelled"}

(* C4: a ledger order that is no longer active keeps its status and stays
   inactive in every later step of the cycles and of the shutdown path (and
   its row stays in the ledger). *)
C4_Terminal ==
    [][\A i \in Rows :
        ~ledger[i].is_active =>
            /\ i \in DOMAIN ledger'
            /\ ledger'[i].status = ledger[i].status
            /\ ~ledger'[i].is_active]_vars

\* C4: an order has left 'active' and a later iteration of the reconcile loop
\* or of the shutdown loop has handled another order
C4_Witness ==
    \E i \in Rows :
        /\ ~ledger[i].is_active
        /\ ev.op \in {"reconcile", "cancel"}
        /\ ev.row # i
        /\ ev.answer \in {"complete", "cancelled", "0312", "true"}

(* C5: in every ledger state, for every order, is_active holds exactly when
   status is 'active'. *)
C5_ActiveIffStatus ==
    \A i \in Rows : ledger[i].is_active <=> (ledger[i].status = "active")

\* C5: update_order_status has taken one order off 'active' while another
\* order, saved by save_order_to_db, is active
C5_Witness ==
    \E i, j \in Rows :
        /\ ledger[i].status # "active" /\ ~ledger[i].is_active
        /\ ledger[j].status = "active" /\ ledger[j].is_active

(* C6: after a lookup of an active order that raised the error 0312 the
   order's ledger status is 'completed' and its id is in neither in-process
   list. *)
C6_AlreadyClosedCompleted ==
    (Reconciled /\ ev.answer = "0312") =>
        /\ ledger[ev.row].status = "completed"
        /\ ~InList(active_buy_orders, ev.order_id)
        /\ ~InList(active_sell_orders, ev.order_id)

(* C6 as amended: after a lookup of an active order that raised the error
   0312 the order's ledger status is 'completed' with is_active false when
   the ledger commit went through and still 'active' with is_active true
   when it failed, never 'cancelled'; in both cases its id is in neither
   in-process list. *)
C6_AlreadyClosedAmended ==
    (Reconciled /\ ev.answer = "0312") =>
        /\ ledger[ev.row].order_id = ev.order_id
        /\ ledger[ev.row].status = (IF ev.commit THEN "completed" ELSE "active")
        /\ ledger[ev.row].is_active = ~ev.commit
        /\ ~InList(active_buy_orders, ev.order_id)
        /\ ~InList(active_sell_orders, ev.order_id)

\* C6: the lookup of an active buy order raised 0312 and the commit went through
C6_Witness ==
    /\ Reconciled /\ ev.answer = "0312" /\ ev.commit
    /\ ledger[ev.row].side = "buy"
    /\ exchange[ev.order_id].status = "complete"

(* C7: an iteration of the reconcile loop whose lookup raised an error other
   than 0312, or returned no result, leaves the ledger and both in-process
   lists as they were, and the loop goes on to the next active order of the
   same snapshot (or, after the last one, to the quote step) without looking
   the order up again. *)
C7_LookupFailureFrame ==
    [][(pc = "reconcile" /\ ev'.answer \in {"error", "none"}) =>
        /\ ledger' = ledger
        /\ active_buy_orders' = active_buy_orders
        /\ active_sell_orders' = active_sell_orders
        /\ IF idx < Len(active_orders)
           THEN pc' = "reconcile" /\ idx' = idx + 1 /\ active_orders' = active_orders
           ELSE pc' = "quote"]_vars

\* C7: the lookup of the first of two active orders failed and the loop is at
\* the second
C7_Witness ==
    /\ pc = "reconcile" /\ idx = 2
    /\ Reconciled /\ ev.answer \in {"error", "none"} /\ ev.row = active_orders[1]

\* C8: the code has no maxActiveOrdersPerSide; the largest limit the orders of
\* one run could exceed
MaxActiveOrdersPerSide == MaxOrders - 1

(* C8: the number of simultaneously active ledger orders of each side never
   exceeds maxActiveOrdersPerSide. *)
C8_ConcurrencyLimit ==
    \A side \in Sides :
        count_active_orders_by_side(ledger, side) <= MaxActiveOrdersPerSide

\* the last step called a place_*_order, which read a balance
PlacedSide(e) ==
    IF e.op = "place_buy" THEN "buy"
    ELSE IF e.op \in {"place_sell", "spawn_sell"} THEN "sell" ELSE "none"

(* C9: a step submits a buy order to the exchange only if the MXN balance
   read in place_buy_order is at least price * amount, and a sell order only
   if the BTC balance read in place_sell_order is at least amount + amount *
   fee for the fee read there; a step of place_*_order that read a smaller
   balance leaves the exchange, the ledger and both lists as they were. *)
C9_BalanceAdmission ==
    [][LET new == exchange'[Len(exchange')]
           enough ==
                /\ ev'.bal # None
                /\ IF PlacedSide(ev') = "buy"
                   THEN ev'.bal[1] >= new.price * TRADE_AMOUNT
                   ELSE ev'.bal[1] >= TRADE_AMOUNT * FeeDen + TRADE_AMOUNT * ev'.fee[1]
       IN  /\ Len(exchange') > Len(exchange) =>
                /\ PlacedSide(ev') = new.side
                /\ enough
           /\ (PlacedSide(ev') = "sell" /\ ev'.bal # None
                 /\ ev'.bal[1] < TRADE_AMOUNT * FeeDen + TRADE_AMOUNT * ev'.fee[1]) =>
                UNCHANGED <<exchange, ledger, active_buy_orders, active_sell_orders>>
           /\ (PlacedSide(ev') = "buy" /\ ev'.bal # None
                 /\ ev'.bal[1] < quote[1].buy_price * TRADE_AMOUNT) =>
                UNCHANGED <<exchange, ledger, active_buy_orders, active_sell_orders>>
      ]_vars

\* C9: after a buy and a sell were submitted in earlier cycles,
\* place_sell_order has read a BTC balance that the quote step had found
\* sufficient but that is below amount + amount * fee for the fee it read,
\* and has refused
C9_Witness ==
    /\ ev.op = "place_sell" /\ ev.answer = "refused"
    /\ ev.bal # None /\ ev.bal[1] >= TRADE_AMOUNT * FeeDen
    /\ ev.bal[1] < TRADE_AMOUNT * FeeDen + TRADE_AMOUNT * ev.fee[1]
    /\ \E i, j \in DOMAIN exchange : exchange[i].side = "sell" /\ exchange[j].side = "buy"

\* x is amount-weighted at least the breakeven of a buy at `price` under
\* fee fraction f / FeeDen: x >= price * amount / (amount - amount * f / FeeDen)
AtLeastBreakeven(x, price, f) ==
    x * (TRADE_AMOUNT * FeeDen - TRADE_AMOUNT * f) >= price * TRADE_AMOUNT * FeeDen

\* x is the breakeven rounded up to 2 decimals: the least multiple of 0.01
\* that is at least the breakeven
IsBreakevenRoundedUp(x, price, f) ==
    /\ x % 100 = 0
    /\ AtLeastBreakeven(x, price, f)
    /\ ~AtLeastBreakeven(x - 100, price, f)

(* C2: the sell price of the completed-buy branch for a buy with stored
   target T, price P and current fee f is T when T >= breakeven(P, f) and
   breakeven(P, f) rounded up to 2 decimals otherwise. *)
C2_SellPriceIsTarget ==
    (calc # None /\ calc[1].fn = "completed_buy") =>
        LET T == calc[1].target[1]
            P == calc[1].price
            f == calc[1].fee
        IN  IF AtLeastBreakeven(T, P, f)
            THEN calc[1].sell = T
            ELSE IsBreakevenRoundedUp(calc[1].sell, P, f)

(* C10: a save_order_to_db of an order id the ledger already holds leaves
   the ledger as it was, so the record of that id keeps the fields of the
   first insert, and after any save no two records share an order id. *)
C10_DuplicateInsert ==
    [][ev'.op = "save" =>
        /\ FirstRow(ledger, ev'.order_id) # 0 => ledger' = ledger
        /\ \A i, j \in DOMAIN ledger' :
              ledger'[i].order_id = ledger'[j].order_id => i = j]_vars

\* C10: a save with a commit that was not made to fail was given an id whose
\* record has another side and price, and has already left 'active'
C10_Witness ==
    /\ ev.op = "save" /\ ev.commit
    /\ \E i \in Rows :
        /\ ledger[i].order_id = ev.order_id
        /\ ledger[i].status = "cancelled"
        /\ ledger[i].side # ev.answer
        /\ ledger[i].price # ev.bal[1]

\* every id of the list is the id of an active ledger order of that side
ListedInLedger(lst, side) ==
    \A k \in DOMAIN lst :
        \E i \in Rows :
            /\ ledger[i].order_id = lst[k]
            /\ ledger[i].side = side
            /\ ledger[i].is_active

(* C11: every id in active_buy_orders is the id of a ledger order of side
   buy with is_active true, and every id in active_sell_orders the id of a
   ledger order of side sell with is_active true: a failed ledger insert
   does not append the id. *)
C11_ListsMatchLedger ==
    /\ ListedInLedger(active_buy_orders, "buy")
    /\ ListedInLedger(active_sell_orders, "sell")

\* snap lists, once each, the rows of L that are active
SnapshotOfActive(snap, L) ==
    /\ \A i \in DOMAIN L : L[i].is_active <=> InList(snap, i)
    /\ \A j, k \in DOMAIN snap : snap[j] = snap[k] => j = k

\* the step called api.cancel_order for the order the shutdown loop is at,
\* whatever it returned, and the loop goes on with the same snapshot
CancelIssuedAndLoopGoesOn ==
    /\ ev'.op = "cancel"
    /\ ev'.answer \in {"true", "false", "raise"}
    /\ ev'.row = active_orders[idx]
    /\ ev'.order_id = ledger[active_orders[idx]].order_id
    /\ pc' = "shutdown"
    /\ idx' = idx + 1
    /\ active_orders' = active_orders

\* the shutdown loop handles, in turn, every row of the snapshot before run()
\* goes on to the final balance
ShutdownLoopVisitsAll ==
    pc = "shutdown" =>
        IF idx <= Len(active_orders)
        THEN CancelIssuedAndLoopGoesOn
        ELSE pc' = "stopped"

(* C12: on an interrupt the shutdown loop is given every order that is
   active in the ledger at that moment, and issues a remote cancel for each
   of them in turn, whether or not an earlier cancel failed. *)
C12_ShutdownCancelsAll ==
    [][/\ (pc \in CyclePcs /\ pc' = "shutdown") =>
            idx' = 1 /\ SnapshotOfActive(active_orders', ledger)
       /\ ShutdownLoopVisitsAll]_vars

(* C12 as amended: on an interrupt between two steps of a cycle or during
   the sleep, when the ledger query for the active orders goes through, the
   shutdown loop is given every order that is active in the ledger at that
   moment, and when the query fails it is given none and no cancel is
   issued; the loop issues a remote cancel for each order it was given, in
   turn, whether or not an earlier cancel failed. *)
C12_ShutdownCancelsAllAmended ==
    [][/\ (pc \in CyclePcs /\ pc' = "shutdown") =>
            /\ idx' = 1
            /\ IF ev'.commit
               THEN SnapshotOfActive(active_orders', ledger)
               ELSE active_orders' = <<>>
       /\ ShutdownLoopVisitsAll]_vars

\* C12: the shutdown loop was given two active orders, the cancel of the
\* first failed (the order is still open on the exchange) and the cancel of
\* the second was issued and went through
C12_Witness ==
    /\ pc = "shutdown" /\ Len(active_orders) = 2 /\ idx = 3
    /\ ev.op = "cancel" /\ ev.answer = "true" /\ ev.row = active_orders[2]
    /\ ledger[active_orders[1]].is_active
    /\ exchange[ledger[active_orders[1]].order_id].status = "open"

\* the step was a call of cancel_order for the row the shutdown loop is at
CancelStep == pc = "shutdown" /\ ev'.op = "cancel" /\ ev'.answer # "skipped"

\* every ledger row but row i is as it was
OtherRowsUnchanged(i) ==
    /\ DOMAIN ledger' = DOMAIN ledger
    /\ \A j \in DOMAIN ledger : j # i => ledger'[j] = ledger[j]

(* C13: cancel_order marks the order 'cancelled' in the ledger and removes
   its id from the in-process lists exactly when the remote cancel reports
   success; when the remote cancel fails or raises, the order stays 'active'
   with is_active true and the lists are as they were. *)
C13_CancelledIffRemoteSuccess ==
    [][CancelStep =>
        LET i == active_orders[idx]
            id == ledger[i].order_id
        IN  /\ OtherRowsUnchanged(i)
            /\ IF ev'.answer = "true"
               THEN /\ ledger'[i].status = "cancelled"
                    /\ ~ledger'[i].is_active
                    /\ ~InList(active_buy_orders', id)
                    /\ ~InList(active_sell_orders', id)
               ELSE /\ ledger'[i] = ledger[i]
                    /\ ledger'[i].status = "active" /\ ledger'[i].is_active
                    /\ active_buy_orders' = active_buy_orders
                    /\ active_sell_orders' = active_sell_orders]_vars

(* C13 as amended: when the remote cancel reports success, cancel_order
   removes the id from the in-process lists, and the order becomes
   'cancelled' with is_active false if the ledger commit goes through and
   stays 'active' with is_active true if it fails; when the remote cancel
   fails or raises, the order stays 'active' with is_active true and the
   lists are as they were.  No other order is touched. *)
C13_CancelledIffRemoteSuccessAmended ==
    [][CancelStep =>
        LET i == active_orders[idx]
            id == ledger[i].order_id
        IN  /\ OtherRowsUnchanged(i)
            /\ IF ev'.answer = "true"
               THEN /\ ledger'[i].status = (IF ev'.commit THEN "cancelled" ELSE "active")
                    /\ ledger'[i].is_active = ~ev'.commit
                    /\ ~InList(active_buy_orders', id)
                    /\ ~InList(active_sell_orders', id)
               ELSE /\ ledger'[i] = ledger[i]
                    /\ ledger'[i].status = "active" /\ ledger'[i].is_active
                    /\ active_buy_orders' = active_buy_orders
                    /\ active_sell_orders' = active_sell_orders]_vars

\* C13: of the two active orders the shutdown loop was given, the cancel of
\* the first went through and it is 'cancelled'; the cancel of the second
\* failed and it is still 'active' and in its list
C13_Witness ==
    /\ pc = "shutdown" /\ Len(active_orders) = 2 /\ idx = 3
    /\ ev.op = "cancel" /\ ev.answer \in {"false", "raise"}
    /\ ev.row = active_orders[2]
    /\ ledger[active_orders[1]].status = "cancelled"
    /\ ledger[active_orders[2]].status = "active"
    /\ ledger[active_orders[2]].is_active
    /\ \/ InList(active_buy_orders, ev.order_id)
       \/ InList(active_sell_orders, ev.order_id)

\* the positions of run_trading_cycle from its own ticker call on, lines 503-537
QuotePcs == {"quote", "place_sell", "place_buy"}

(* C14: within one run_trading_cycle every reconciliation action (remote
   lookup, ledger status transition, sell spawned from a completed buy) is
   taken in the loop of check_active_orders, before the cycle has a quote;
   from the quote step to the end of the cycle no order is looked up, no
   ledger record changes (records are only added) and the cycle does not go
   back to the loop; an order is placed from a quote only after the loop. *)
C14_ReconcileBeforeQuote ==
    [][/\ ev'.op \in {"reconcile", "spawn_sell"} =>
            pc = "reconcile" /\ quote = None /\ quote' = None
       /\ pc \in QuotePcs =>
            /\ pc' # "reconcile"
            /\ \A i \in DOMAIN ledger : i \in DOMAIN ledger' /\ ledger'[i] = ledger[i]
            /\ \A o \in DOMAIN exchange : exchange'[o] = exchange[o]
       /\ (ev'.op \in {"place_sell", "place_buy"} /\ Len(exchange') > Len(exchange)) =>
            pc \in {"place_sell", "place_buy"} /\ quote # None]_vars

\* C14: the loop of check_active_orders has made its last lookup, which took
\* an order off 'active', and the cycle is at its quote step with room for a
\* new order
C14_Witness ==
    /\ pc = "quote" /\ quote = None
    /\ ev.op = "reconcile" /\ ev.answer \in {"complete", "cancelled", "0312"}
    /\ ev.commit /\ ~ledger[ev.row].is_active
    /\ Len(exchange) < MaxOrders

\* the step was the quote step, and it did not raise
QuoteStep == pc = "quote" /\ ev'.op = "quote" /\ ev'.answer # "raised"

\* the quote step got a ticker and no fee from the exchange
QuoteWithoutFee(e) == e.op = "quote" /\ e.answer # "no_ticker" /\ e.fee = None

(* C15: a quote step that cannot obtain the ticker or cannot obtain the fee
   from the exchange ends the cycle: run() is back at its sleep with no
   order placed and the ledger and both lists as they were. *)
C15_QuoteFailureEndsCycle ==
    [][(QuoteStep /\ (ev'.answer = "no_ticker" \/ QuoteWithoutFee(ev'))) =>
        /\ pc' = "sleep"
        /\ UNCHANGED <<ledger, active_buy_orders, active_sell_orders, exchange>>]_vars

(* C15 as amended: a quote step that cannot obtain the ticker ends the
   cycle, run() being back at its sleep with no order placed and the ledger
   and both lists as they were; a quote step that obtains the ticker but
   not the fee goes on with the fee SPREAD_FEE, and with prices and a
   balance it reaches the placement steps with the quote computed from
   that fee.  The quote step itself writes nothing. *)
C15_QuoteFailureAmended ==
    [][QuoteStep =>
        /\ UNCHANGED <<ledger, active_buy_orders, active_sell_orders, exchange>>
        /\ ev'.answer = "no_ticker" => pc' = "sleep" /\ quote' = None
        /\ QuoteWithoutFee(ev') =>
            IF ev'.answer = "quoted"
            THEN /\ pc' = "place_sell"
                 /\ quote'[1].fee = SPREAD_FEE
                 /\ quote'[1].sell_price =
                        calculate_prices(quote'[1].buy_price, SPREAD_FEE)[2]
            ELSE pc' = "sleep" /\ ev'.answer \in {"no_price", "no_balance"}]_vars

\* C15: the quote step got a ticker and a balance but no fee, and the cycle
\* is at its placement steps with a balance that lets it place a sell and a
\* buy, one order being on the exchange already
C15_Witness ==
    /\ pc = "place_sell" /\ QuoteWithoutFee(ev) /\ ev.answer = "quoted"
    /\ quote[1].fee = SPREAD_FEE
    /\ quote[1].balances.btc >= RequiredBtc(quote[1].fee)
    /\ quote[1].balances.mxn >= RequiredMxn(quote[1].buy_price)
    /\ Len(exchange) = 1

(* C16: no error escapes a trading cycle: whatever the remote calls and
   the ledger return, for every bid >= 0 and fee fraction in [0, 1],
   run_trading_cycle returns to run(), which is never ended by an
   exception. *)
C16_NoErrorEscapes == pc # "crashed"

\* the step looked up the order the loop of check_active_orders is at, and
\* the loop goes on to the next row, or ends after the last
LookupAndLoopGoesOn ==
    /\ ev'.op \in {"reconcile", "spawn_sell"}
    /\ ev'.row = active_orders[idx]
    /\ ev'.answer \in {"open", "complete", "cancelled", "0312", "none", "error"}
    /\ IF idx < Len(active_orders)
       THEN pc' = "reconcile" /\ idx' = idx + 1 /\ active_orders' = active_orders
       ELSE pc' = "quote"

(* C17: a trading cycle that starts with active orders in the ledger, and
   whose ledger query returns them, looks up every one of them on the
   exchange, whatever the ticker and fee calls of that cycle return: the
   loop of check_active_orders is entered with all the active orders and,
   unless interrupted, looks each of them up in turn. *)
C17_EveryActiveOrderQueried ==
    [][/\ (pc = "sleep" /\ ev'.op = "check_active_orders"
            /\ ev'.answer # "no_orders"
            /\ \E i \in DOMAIN ledger : ledger[i].is_active) =>
            /\ pc' = "reconcile"
            /\ idx' = 1
            /\ SnapshotOfActive(active_orders', ledger)
       /\ (pc = "reconcile" /\ ev'.op # "interrupt") => LookupAndLoopGoesOn]_vars

\* calculate_prices has returned a pair for the arguments held in calc
Calculated == calc # None /\ calc[1].fn = "calculate_prices"

\* the breakeven of a buy at `price` under fee fraction f / FeeDen is above
\* price * maxFactor: price * amount / (amount - amount * f / FeeDen) > price * 1.10
BreakevenAboveMax(price, f) ==
    price * TRADE_AMOUNT * FeeDen * 100
        > price * MAX_SELL_PRICE_FACTOR * (TRADE_AMOUNT * FeeDen - TRADE_AMOUNT * f)

(* C18: for every bid and fee for which calculate_prices returns, the sell
   price is at least breakeven = buyPrice * amount / (amount - amount * fee)
   whenever breakeven <= buyPrice * maxFactor; it is below the breakeven
   only when the breakeven is above buyPrice * maxFactor. *)
C18_SellAtLeastBreakeven ==
    Calculated =>
        (~BreakevenAboveMax(calc[1].buy, calc[1].fee)
            => AtLeastBreakeven(calc[1].sell, calc[1].buy, calc[1].fee))

\* C18: calculate_prices has returned, for a bid that is not a whole number
\* of cents and a fee whose breakeven is more than a cent above buyPrice *
\* 1.02 and not above buyPrice * 1.10, a sell price that is at least the
\* breakeven and less than one cent above it
C18_Witness ==
    /\ Calculated
    /\ calc[1].bid % 100 # 0
    /\ ~BreakevenAboveMax(calc[1].buy, calc[1].fee)
    /\ ~AtLeastBreakeven((calc[1].buy * (100 + TARGET_PROFIT_PERCENTAGE)) \div 100 + 100,
                         calc[1].buy, calc[1].fee)
    /\ IsBreakevenRoundedUp(calc[1].sell, calc[1].buy, calc[1].fee)

\* x >= min(max(price * (1 + targetProfit), breakeven), price * maxFactor) for
\* a buy at `price` under fee fraction f / FeeDen, each comparison
\* cross-multiplied
AtLeastClampedSell(x, price, f) ==
    LET atLeastTarget == x * 100 >= price * (100 + TARGET_PROFIT_PERCENTAGE)
        atLeastMax == x * 100 >= price * MAX_SELL_PRICE_FACTOR
    IN  \/ atLeastMax
        \/ atLeastTarget /\ AtLeastBreakeven(x, price, f)

(* C19: the buy price calculate_prices returns is the largest multiple of
   0.01 that is <= bid, and the sell price is the smallest multiple of 0.01
   that is >= min(max(buyPrice * (1 + targetProfit), breakeven), buyPrice *
   maxFactor); each being the only number with that property, the pair is
   determined by the bid and the fee. *)
C19_RoundingPolicy ==
    Calculated =>
        LET bid == calc[1].bid
            buy == calc[1].buy
            sell == calc[1].sell
            f == calc[1].fee
        IN  /\ buy % 100 = 0
            /\ buy <= bid /\ bid < buy + 100
            /\ sell % 100 = 0
            /\ AtLeastClampedSell(sell, buy, f)
            /\ ~AtLeastClampedSell(sell - 100, buy, f)

\* C19: calculate_prices has returned for a bid that is not a whole number
\* of cents a buy price below the bid, and a sell price that is above the
\* clamped value it was rounded up from, the clamp to buyPrice * maxFactor
\* being the one that applied
C19_Witness ==
    /\ Calculated
    /\ calc[1].buy < calc[1].bid
    /\ BreakevenAboveMax(calc[1].buy, calc[1].fee)
    /\ calc[1].sell * 100 > calc[1].buy * MAX_SELL_PRICE_FACTOR
    /\ ~AtLeastBreakeven(calc[1].sell, calc[1].buy, calc[1].fee)

\* the Pricing Engine has returned for the inputs of scenario A: bid 19.00,
\* ask 19.05, undercut 0.001, fixedMargin 0.05
ScenarioA ==
    /\ calc # None /\ calc[1].fn = "price"
    /\ calc[1].cfg = [strategy |-> "fixed_markup", undercut |-> 1, fixedMargin |-> 500]
    /\ calc[1].ticker = [bid |-> 190000, ask |-> 190500]

(* C20: configured for the fixed-markup strategy, the Pricing Engine
   returns for bid 19.00, ask 19.05, undercut 0.001 and fixedMargin 0.05
   the buy price 19.0305 and the sell price buyPrice + 0.05. *)
C20_FixedMarkupScenario ==
    ScenarioA => calc[1].buy = 190305 /\ calc[1].sell = calc[1].buy + 500

(* C20 as amended: configured for the fixed-markup strategy, the Pricing
   Engine returns as buy price the largest multiple of 0.01 that is <= ask *
   (1 - undercut) and as sell price buyPrice + fixedMargin; for bid 19.00,
   ask 19.05, undercut 0.001 and fixedMargin 0.05 that is 19.03 (19.03095
   rounded down) and 19.08.  Configured for the fee-relative strategy it
   returns what calculate_prices returns. *)
C20_FixedMarkupAmended ==
    (calc # None /\ calc[1].fn = "price") =>
        LET c == calc[1].cfg
            t == calc[1].ticker
        IN  /\ c.strategy = "fixed_markup" =>
                /\ calc[1].buy % 100 = 0
                /\ calc[1].buy * FeeDen <= t.ask * (FeeDen - c.undercut)
                /\ t.ask * (FeeDen - c.undercut) < (calc[1].buy + 100) * FeeDen
                /\ calc[1].sell = calc[1].buy + c.fixedMargin
            /\ c.strategy = "fee_relative" =>
                /\ calc[1].buy = QuantizeDown(t.bid)
                /\ IF BreakevenAboveMax(calc[1].buy, calc[1].fee)
                   THEN calc[1].sell * 100 >= calc[1].buy * MAX_SELL_PRICE_FACTOR
                   ELSE AtLeastBreakeven(calc[1].sell, calc[1].buy, calc[1].fee)
            /\ ScenarioA => calc[1].buy = 190300 /\ calc[1].sell = 190800

\* C20: the Pricing Engine has returned for scenario A, with a buy price
\* below ask * (1 - undercut) = 19.03095
C20_Witness ==
    /\ ScenarioA
    /\ calc[1].buy * FeeDen < calc[1].ticker.ask * (FeeDen - calc[1].cfg.undercut)
    /\ calc[1].sell - calc[1].buy = calc[1].cfg.fixedMargin

(* C21: an iteration of the reconcile loop whose lookup reports the order
   'open' leaves the ledger, both in-process lists and the exchange's orders
   as they were (no cancel, no new order), also for a sell order whose price
   the bid has fallen below by more than 2 %. *)
C21_OpenIsNoOp ==
    [][(pc = "reconcile" /\ ev'.op \in {"reconcile", "spawn_sell"}
            /\ ev'.answer = "open") =>
        /\ ev'.op = "reconcile"
        /\ ledger' = ledger
        /\ active_buy_orders' = active_buy_orders
        /\ active_sell_orders' = active_sell_orders
        /\ exchange' = exchange]_vars

\* C21: the loop has looked up the first of its two orders, a sell order
\* whose price the bid of this cycle is more than 2 % below, and found it
\* open; it is still active, listed and open on the exchange
C21_Witness ==
    /\ pc = "reconcile" /\ idx = 2
    /\ ev.op = "reconcile" /\ ev.answer = "open" /\ ev.row = active_orders[1]
    /\ ledger[ev.row].side = "sell"
    /\ PriceDropped(ledger[ev.row], cao[1].bid)
    /\ ledger[ev.row].is_active
    /\ InList(active_sell_orders, ev.order_id)
    /\ exchange[ev.order_id].status = "open"

\* the fields of a ledger record that are written at insertion only
SameInsertedFields(a, b) ==
    /\ a.order_id = b.order_id
    /\ a.side = b.side
    /\ a.price = b.price
    /\ a.amount = b.amount
    /\ a.target_price = b.target_price

(* C22: in every step of the cycles and of the shutdown path every ledger
   record stays in the ledger with its order_id, side, price, amount and
   target_price; a record changes (in status and is_active only) in no step
   other than a status lookup of the reconcile loop or a cancel of the
   shutdown loop, and the ledger grows by at most one record, added by a
   placement. *)
C22_AppendOnly ==
    [][/\ Len(ledger') \in {Len(ledger), Len(ledger) + 1}
       /\ \A i \in DOMAIN ledger : SameInsertedFields(ledger'[i], ledger[i])
       /\ (\E i \in DOMAIN ledger : ledger'[i] # ledger[i]) =>
            ev'.op \in {"reconcile", "spawn_sell", "cancel"}
       /\ Len(ledger') > Len(ledger) =>
            ev'.op \in {"place_sell", "place_buy", "spawn_sell"}]_vars

\* C22: a buy record was taken off 'active' by a status lookup and another
\* record by a cancel at shutdown, and both still hold the side and the price
\* submitted to the exchange, the buy its target price
C22_Witness ==
    /\ ev.op = "cancel" /\ ev.answer = "true" /\ ev.commit
    /\ \E i, j \in Rows :
        /\ i # j
        /\ ledger[i].side = "buy" /\ ledger[i].status \in {"complete", "completed"}
        /\ ledger[i].target_price # None
        /\ ledger[j].status = "cancelled" /\ j = ev.row
        /\ \A k \in {i, j} :
            /\ ledger[k].side = exchange[ledger[k].order_id].side
            /\ ledger[k].price = exchange[ledger[k].order_id].price

(* C23: every order the exchange has accepted from place_buy_order or
   place_sell_order has a ledger record of its id and side, with a target
   price if it is a buy: no order is on the exchange without a ledger
   record. *)
C23_SubmittedHasRecord ==
    \A o \in DOMAIN exchange :
        \E i \in Rows :
            /\ ledger[i].order_id = o
            /\ ledger[i].side = exchange[o].side
            /\ exchange[o].side = "buy" => ledger[i].target_price # None

\* a cycle has quoted and its place_buy_order has saved a buy with a target
BuySaved == calc # None /\ calc[1].fn = "quote_and_buy" /\ calc[1].target # None

(* C24: the target price place_buy_order stores with a buy equals the sell
   price calculate_prices returned in the same cycle for that buy price. *)
C24_TargetIsQuotedSell ==
    BuySaved => calc[1].target[1] = calc[1].sell

(* C24 as amended: the target price place_buy_order stores with a buy
   equals the sell price calculate_prices returns for that buy price and the
   fee place_buy_order read itself, and so does the price of the no-target
   fallback of check_active_orders for that buy price and fee; the target
   equals the sell price quoted in the same cycle whenever the fee read by
   run_trading_cycle and the fee read by place_buy_order are the same. *)
C24_TargetIsQuotedSellAmended ==
    BuySaved =>
        /\ calc[1].target[1] = calculate_prices(calc[1].buy, calc[1].fee_buy)[2]
        /\ calc[1].fallback = calc[1].target[1]
        /\ get_fees(calc[1].fees_quote) = calc[1].fee_buy
                => calc[1].target[1] = calc[1].sell

\* C24: run_trading_cycle got no fee and quoted with the fallback fee, and
\* place_buy_order read a fee of 5 %, whose breakeven is above buyPrice *
\* 1.02: the stored target is above the quoted sell price
C24_Witness ==
    /\ BuySaved
    /\ calc[1].fees_quote = <<>> /\ calc[1].fee_buy = 50
    /\ calc[1].bid % 100 # 0
    /\ calc[1].target[1] > calc[1].sell
    /\ calc[1].fallback = calc[1].target[1]

====
